---- MODULE Spec2Model ----
(***************************************************************************)
(* Model of brave_profile_color.py: the color codec, the profile locator,  *)
(* the name resolver, the preference mutator and the command line driver.  *)
(*                                                                         *)
(* Python strings are sequences of one-character strings, so that          *)
(* lstrip, lower, upper, split, int() and the substring test are computed  *)
(* character by character.                                                 *)
(***************************************************************************)
EXTENDS Integers, Sequences, FiniteSets, TLC

VARIABLES
    args,           \* argparse namespace of the current invocation of main
    env,            \* data directory: exists, browser running, iterdir order, Local State
    prefs,          \* folder name -> content of <folder>/Preferences
    backups,        \* set of backup files in .color_backups: [name, content]
    clock,          \* datetime.now() truncated to seconds
    pc,             \* position of main
    profiles,       \* main's list of selected profiles
    idx,            \* number of profiles the update loop has processed
    success_count,  \* main's success_count
    color_int,      \* main's color_int
    exit_status,    \* process exit status once main has ended
    ret,            \* outcome of the latest set_theme_color call
    arg,            \* arguments of a direct call of one of the functions
    res             \* what that call returned

vars == <<args, env, prefs, backups, clock, pc, profiles, idx, success_count,
          color_int, exit_status, ret, arg, res>>

runVars == <<args, env, prefs, backups, clock, pc, profiles, idx,
             success_count, color_int, exit_status, ret>>

-----------------------------------------------------------------------------
(* Bounds *)

MaxHashes == 1      \* leading '#' characters of a drawn color string
MaxDigits == 8      \* characters after the '#' of a drawn color string
MaxEntries == 3     \* entries of a drawn directory listing
MaxQueries == 2     \* names given to find_profiles_by_name
MaxClock == 1       \* seconds the clock advances during one run of main

-----------------------------------------------------------------------------
(* Characters and Python string builtins *)

\* The characters the model uses, in code point order.
Ascii == <<" ", "#", "0", "1", "2", "3", "4", "5", "6", "7", "8", "9",
           "A", "B", "C", "D", "E", "F", "G", "H", "I", "J", "K", "L", "M",
           "N", "O", "P", "Q", "R", "S", "T", "U", "V", "W", "X", "Y", "Z",
           "a", "b", "c", "d", "e", "f", "g", "h", "i", "j", "k", "l", "m",
           "n", "o", "p", "q", "r", "s", "t", "u", "v", "w", "x", "y", "z">>

ordTable == [c \in {Ascii[i] : i \in DOMAIN Ascii} |->
                CHOOSE i \in DOMAIN Ascii : Ascii[i] = c]

ord(c) == ordTable[c]

IsUpperChar(c) == ord(c) >= ord("A") /\ ord(c) <= ord("Z")
IsLowerChar(c) == ord(c) >= ord("a") /\ ord(c) <= ord("z")
IsDigitChar(c) == ord(c) >= ord("0") /\ ord(c) <= ord("9")

\* str.lower() and str.upper()
lower(s) == [i \in 1..Len(s) |->
                IF IsUpperChar(s[i]) THEN Ascii[ord(s[i]) + 26] ELSE s[i]]
upper(s) == [i \in 1..Len(s) |->
                IF IsLowerChar(s[i]) THEN Ascii[ord(s[i]) - 26] ELSE s[i]]

\* str.lstrip(c): drop every leading occurrence of c
RECURSIVE lstrip(_, _)
lstrip(s, c) == IF s # <<>> /\ Head(s) = c THEN lstrip(Tail(s), c) ELSE s

\* str.startswith(p)
startswith(s, p) == Len(s) >= Len(p) /\ SubSeq(s, 1, Len(p)) = p

\* the Python test `sub in s` on strings
contains(s, sub) ==
    \E i \in 0..(Len(s) - Len(sub)) : SubSeq(s, i + 1, i + Len(sub)) = sub

\* Python's < on strings: lexicographic by code point
RECURSIVE strLess(_, _)
strLess(a, b) ==
    IF b = <<>> THEN FALSE
    ELSE IF a = <<>> THEN TRUE
    ELSE IF Head(a) # Head(b) THEN ord(Head(a)) < ord(Head(b))
    ELSE strLess(Tail(a), Tail(b))

\* str.split(): the maximal runs of non-blank characters
RECURSIVE split(_)
split(s) ==
    IF s = <<>> THEN <<>>
    ELSE IF Head(s) = " " THEN split(Tail(s))
    ELSE LET rest == split(Tail(s))
         IN  IF Len(s) > 1 /\ s[2] # " "
             THEN <<(<<Head(s)>> \o Head(rest))>> \o Tail(rest)
             ELSE <<(<<Head(s)>>)>> \o rest

\* int(s) raises ValueError unless s is a non-empty string of decimal digits
\* (no sign or underscore is among the model's characters, and the tokens of
\* split() hold no blank)
intFails(s) == s = <<>> \/ \E i \in 1..Len(s) : ~IsDigitChar(s[i])

RECURSIVE int(_)
int(s) ==
    IF s = <<>> THEN 0
    ELSE 10 * int(SubSeq(s, 1, Len(s) - 1)) + (ord(s[Len(s)]) - ord("0"))

\* str.rstrip(c)
RECURSIVE rstrip(_, _)
rstrip(s, c) ==
    IF s # <<>> /\ s[Len(s)] = c THEN rstrip(SubSeq(s, 1, Len(s) - 1), c) ELSE s

\* value of one hexadecimal digit, -1 when the character is not one
hexDigitValue(c) ==
    IF IsDigitChar(c) THEN ord(c) - ord("0")
    ELSE IF ord(c) >= ord("A") /\ ord(c) <= ord("F") THEN 10 + ord(c) - ord("A")
    ELSE IF ord(c) >= ord("a") /\ ord(c) <= ord("f") THEN 10 + ord(c) - ord("a")
    ELSE -1

IsHexString(s) == \A i \in 1..Len(s) : hexDigitValue(s[i]) >= 0

\* Python integers are unbounded; TLC's are 32 bits wide, so an
\* unsigned 32-bit value is held as its top byte and its low 24 bits:
\* the value is hi * 2^24 + lo.
RECURSIVE hexValue(_)
hexValue(s) ==
    IF s = <<>> THEN 0
    ELSE 16 * hexValue(SubSeq(s, 1, Len(s) - 1)) + hexDigitValue(s[Len(s)])

\* the literal int(s, 16) parses: blanks stripped, then an optional 0x prefix
\* (no sign or underscore is among the model's characters)
hexLiteral(s) ==
    LET t == rstrip(lstrip(s, " "), " ")
    IN  IF startswith(t, <<"0", "x">>) \/ startswith(t, <<"0", "X">>)
        THEN SubSeq(t, 3, Len(t)) ELSE t

\* int(s, 16) raises ValueError unless the literal is a non-empty digit string
intBase16Fails(s) == hexLiteral(s) = <<>> \/ ~IsHexString(hexLiteral(s))

\* int(s, 16) of a literal of at most 8 digits
intBase16(s) ==
    LET t == hexLiteral(s)
    IN  IF Len(t) <= 6 THEN [hi |-> 0, lo |-> hexValue(t)]
        ELSE [hi |-> hexValue(SubSeq(t, 1, Len(t) - 6)),
              lo |-> hexValue(SubSeq(t, Len(t) - 5, Len(t)))]

\* the format specification 06X: uppercase hexadecimal, zero padded to 6
HexDigits == <<"0", "1", "2", "3", "4", "5", "6", "7", "8", "9",
               "A", "B", "C", "D", "E", "F">>

RECURSIVE formatX(_)
formatX(n) ==
    IF n < 16 THEN <<HexDigits[n + 1]>>
    ELSE Append(formatX(n \div 16), HexDigits[(n % 16) + 1])

RECURSIVE zeroPad(_, _)
zeroPad(s, width) == IF Len(s) >= width THEN s ELSE zeroPad(<<"0">> \o s, width)

format06X(n) == zeroPad(formatX(n), 6)

-----------------------------------------------------------------------------
(* Color Conversion *)

ValueError == [err |-> TRUE, val |-> 0]
Returns(v) == [err |-> FALSE, val |-> v]

\* hex_to_signed_int without the alpha channel prepended to six digits
hex_to_signed_int_no_alpha(hex_color) ==
    LET stripped == lstrip(hex_color, "#")
    IN  IF Len(stripped) # 6 /\ Len(stripped) # 8 THEN ValueError
        ELSE IF intBase16Fails(stripped) THEN ValueError
        ELSE LET unsigned == intBase16(stripped)
             IN  IF unsigned.hi >= 128
                 THEN Returns((unsigned.hi - 256) * 2^24 + unsigned.lo)
                 ELSE Returns(unsigned.hi * 2^24 + unsigned.lo)

\* `unsigned >= (1 << 31)` is `hi >= 128`, and unsigned - (1 << 32) is
\* (hi - 256) * 2^24 + lo.
hex_to_signed_int(hex_color) ==
    LET stripped == lstrip(hex_color, "#")
        digits   == IF Len(stripped) = 6 THEN <<"F", "F">> \o stripped ELSE stripped
    IN  IF Len(stripped) # 6 /\ Len(stripped) # 8 THEN ValueError
        ELSE IF intBase16Fails(digits) THEN ValueError
        ELSE LET unsigned == intBase16(digits)
             IN  IF unsigned.hi >= 128
                 THEN Returns((unsigned.hi - 256) * 2^24 + unsigned.lo)
                 ELSE Returns(unsigned.hi * 2^24 + unsigned.lo)

\* signed_int + (1 << 32) for a negative signed_int, the value itself otherwise
toUnsigned(signed_int) ==
    IF signed_int < 0
    THEN [hi |-> (signed_int \div 2^24) + 256, lo |-> signed_int % 2^24]
    ELSE [hi |-> signed_int \div 2^24, lo |-> signed_int % 2^24]

\* signed_int_to_hex without the mask that drops the alpha byte
signed_int_to_hex_nomask(signed_int) ==
    LET unsigned == toUnsigned(signed_int)
    IN  IF unsigned.hi = 0 THEN <<"#">> \o format06X(unsigned.lo)
        ELSE <<"#">> \o formatX(unsigned.hi) \o format06X(unsigned.lo)

\* `unsigned & 0xFFFFFF` is the low 24 bits
signed_int_to_hex(signed_int) ==
    LET unsigned == toUnsigned(signed_int)
    IN  <<"#">> \o format06X(unsigned.lo)

-----------------------------------------------------------------------------
(* Preference documents *)

(* The content of a Preferences file, as far as the program looks at it.   *)
(*   kind      "unreadable"  open() raises OSError                          *)
(*             "undecodable" the bytes are not UTF-8: UnicodeDecodeError    *)
(*             "badjson"     json.load raises JSONDecodeError               *)
(*             "json"        json.load returns a value                      *)
(*   top       "obj" when that value is a JSON object, "other" otherwise    *)
(*   ag, agTheme, ext, extTheme                                             *)
(*             the values at autogenerated, autogenerated.theme, extensions *)
(*             and extensions.theme: "absent", "obj", or "other" (a JSON    *)
(*             value that is not an object)                                 *)
(*   color     autogenerated.theme.color: <<>> when absent, else <<int>>    *)
(*   id        extensions.theme.id: <<>> when absent, else <<string>>       *)
(*   name      profile.name, the empty string when absent                   *)
(*   canonical the bytes are what json.dump(..., separators=(',', ':'))     *)
(*             writes for the value (no other whitespace or escapes)        *)

AUTOGENERATED_THEME_ID == "autogenerated_theme_id"

NoDoc(kind) ==
    [kind |-> kind, top |-> "other", ag |-> "absent", agTheme |-> "absent",
     color |-> <<>>, ext |-> "absent", extTheme |-> "absent", id |-> <<>>,
     name |-> <<>>, canonical |-> FALSE]

JsonDoc(ag, agTheme, color, ext, extTheme, id, name, canonical) ==
    [kind |-> "json", top |-> "obj", ag |-> ag, agTheme |-> agTheme,
     color |-> color, ext |-> ext, extTheme |-> extTheme, id |-> id,
     name |-> name, canonical |-> canonical]

\* json.load succeeded and every value on the paths the program walks is,
\* where present, a JSON object
WellFormed(doc) ==
    /\ doc.kind = "json" /\ doc.top = "obj"
    /\ doc.ag # "other" /\ doc.agTheme # "other"
    /\ doc.ext # "other" /\ doc.extTheme # "other"

\* outcome of `with open(...) as f: prefs = json.load(f)`
loadOutcome(doc) ==
    CASE doc.kind = "unreadable"  -> "IOError"
      [] doc.kind = "undecodable" -> "UnicodeDecodeError"
      [] doc.kind = "badjson"     -> "JSONDecodeError"
      [] OTHER                    -> "ok"

-----------------------------------------------------------------------------
(* Backup Management *)

\* backup_preferences: the file <profile_folder>_<timestamp>.json receives a
\* copy of the document; shutil.copy2 replaces a file of that name
backup_preferences(fs_backups, fs_prefs, folder, now) ==
    LET backup_name == <<folder, now>>
    IN  {b \in fs_backups : b.name # backup_name}
            \cup {[name |-> backup_name, content |-> fs_prefs[folder]]}

-----------------------------------------------------------------------------
(* Preference Mutator *)

\* the assignments of set_theme_color without the one to extensions.theme.id
mutated_keeps_id(doc, c) ==
    [doc EXCEPT !.ag = "obj", !.agTheme = "obj", !.color = <<c>>,
                !.canonical = TRUE]

\* the document json.dump writes after the assignments of set_theme_color
mutated(doc, c) ==
    [doc EXCEPT !.ag = "obj", !.agTheme = "obj", !.color = <<c>>,
                !.ext = "obj", !.extTheme = "obj",
                !.id = <<AUTOGENERATED_THEME_ID>>, !.canonical = TRUE]

Outcome(result, fs_prefs, fs_backups) ==
    [result |-> result, prefs |-> fs_prefs, backups |-> fs_backups]

\* set_theme_color reporting a dry run as a failure
set_theme_color_dry_false(fs_prefs, fs_backups, folder, c, dry_run, backup, now) ==
    LET doc == fs_prefs[folder]
        loaded == loadOutcome(doc)
    IN  IF loaded \in {"IOError", "JSONDecodeError"}
        THEN Outcome("False", fs_prefs, fs_backups)
        ELSE IF loaded = "UnicodeDecodeError"
        THEN Outcome("UnicodeDecodeError", fs_prefs, fs_backups)
        ELSE IF ~WellFormed(doc)
        THEN Outcome("TypeError", fs_prefs, fs_backups)
        ELSE IF dry_run THEN Outcome("False", fs_prefs, fs_backups)
        ELSE Outcome("True",
                     [fs_prefs EXCEPT ![folder] = mutated(doc, c)],
                     IF backup
                     THEN backup_preferences(fs_backups, fs_prefs, folder, now)
                     ELSE fs_backups)

\* set_theme_color taking the backup before it loads the document
set_theme_color_backup_first(fs_prefs, fs_backups, folder, c, dry_run, backup, now) ==
    LET doc == fs_prefs[folder]
        loaded == loadOutcome(doc)
        saved == IF backup /\ ~dry_run /\ loaded # "IOError"
                 THEN backup_preferences(fs_backups, fs_prefs, folder, now)
                 ELSE fs_backups
    IN  IF loaded \in {"IOError", "JSONDecodeError"}
        THEN Outcome("False", fs_prefs, saved)
        ELSE IF loaded = "UnicodeDecodeError"
        THEN Outcome("UnicodeDecodeError", fs_prefs, saved)
        ELSE IF ~WellFormed(doc)
        THEN Outcome("TypeError", fs_prefs, saved)
        ELSE IF dry_run THEN Outcome("True", fs_prefs, fs_backups)
        ELSE Outcome("True", [fs_prefs EXCEPT ![folder] = mutated(doc, c)], saved)

\* result is "True" or "False" for a return value, else the exception that
\* leaves the function: the except clause catches JSONDecodeError and
\* IOError only.  An item assignment or `in` test on a value that is not
\* an object raises TypeError before anything is written.
set_theme_color(fs_prefs, fs_backups, folder, c, dry_run, backup, now) ==
    LET doc == fs_prefs[folder]
        loaded == loadOutcome(doc)
    IN  IF loaded \in {"IOError", "JSONDecodeError"}
        THEN Outcome("False", fs_prefs, fs_backups)
        ELSE IF loaded = "UnicodeDecodeError"
        THEN Outcome("UnicodeDecodeError", fs_prefs, fs_backups)
        ELSE IF ~WellFormed(doc)
        THEN Outcome("TypeError", fs_prefs, fs_backups)
        ELSE IF dry_run THEN Outcome("True", fs_prefs, fs_backups)
        ELSE Outcome("True",
                     [fs_prefs EXCEPT ![folder] = mutated(doc, c)],
                     IF backup
                     THEN backup_preferences(fs_backups, fs_prefs, folder, now)
                     ELSE fs_backups)

-----------------------------------------------------------------------------
(* Profile Management: get_profile_dirs *)

\* A directory entry is [name, is_dir, has_prefs]; a listing is the sequence
\* of entries in the order iterdir() yields them.

SystemProfiles == {<<"S", "y", "s", "t", "e", "m", " ", "P", "r", "o", "f", "i", "l", "e">>,
                   <<"G", "u", "e", "s", "t", " ", "P", "r", "o", "f", "i", "l", "e">>}

\* sort_key: the tuples (0, 0), (1, num) and (2, name) as [cls, num, str]
sort_key(name) ==
    IF name = <<"D", "e", "f", "a", "u", "l", "t">>
    THEN [cls |-> 0, num |-> 0, str |-> <<>>]
    ELSE IF startswith(name, <<"P", "r", "o", "f", "i", "l", "e", " ">>)
    THEN IF Len(split(name)) < 2 \/ intFails(split(name)[2])
         THEN [cls |-> 2, num |-> 0, str |-> name]
         ELSE [cls |-> 1, num |-> int(split(name)[2]), str |-> <<>>]
    ELSE [cls |-> 2, num |-> 0, str |-> name]

\* Python's < on the key tuples
keyLess(a, b) ==
    \/ a.cls < b.cls
    \/ a.cls = b.cls /\ a.cls = 1 /\ a.num < b.num
    \/ a.cls = b.cls /\ a.cls = 2 /\ strLess(a.str, b.str)

\* sorted(..., key=sort_key) is stable: an element goes behind every element
\* already placed whose key is not greater
RECURSIVE insertByKey(_, _)
insertByKey(sortedNames, name) ==
    IF sortedNames = <<>> THEN <<name>>
    ELSE IF keyLess(sort_key(name), sort_key(Head(sortedNames)))
    THEN <<name>> \o sortedNames
    ELSE <<Head(sortedNames)>> \o insertByKey(Tail(sortedNames), name)

RECURSIVE sorted(_)
sorted(names) ==
    IF names = <<>> THEN <<>>
    ELSE insertByKey(sorted(SubSeq(names, 1, Len(names) - 1)), names[Len(names)])

\* the loop over iterdir(): directories holding a Preferences file, but
\* for the system-level profiles, in listing order
RECURSIVE candidates(_)
candidates(listing) ==
    IF listing = <<>> THEN <<>>
    ELSE LET entry == Head(listing)
         IN  IF entry.is_dir /\ entry.has_prefs /\ entry.name \notin SystemProfiles
             THEN <<entry.name>> \o candidates(Tail(listing))
             ELSE candidates(Tail(listing))

\* the folder names of the tuples get_profile_dirs returns
get_profile_dirs(listing) == sorted(candidates(listing))

-----------------------------------------------------------------------------
(* Profile Management: display names and current color *)

\* load_profile_names_from_local_state: the model's Local State is the
\* mapping itself (a missing or corrupt file is the empty mapping);
\* dict.get(folder_name) of it, with the empty string for None
localStateName(local_state, folder) ==
    IF folder \in DOMAIN local_state THEN local_state[folder] ELSE <<>>

\* get_profile_display_name: [raised, name]; prefs.get on a value that is
\* not an object raises AttributeError, which the except clause lets through
get_profile_display_name(doc) ==
    CASE loadOutcome(doc) \in {"IOError", "JSONDecodeError"} ->
            [raised |-> FALSE, name |-> <<>>]
      [] loadOutcome(doc) = "UnicodeDecodeError" ->
            [raised |-> TRUE, name |-> <<>>]
      [] OTHER ->
            IF doc.top = "obj" THEN [raised |-> FALSE, name |-> doc.name]
            ELSE [raised |-> TRUE, name |-> <<>>]

\* `profile_names.get(folder_name) or get_profile_display_name(...)`
displayName(local_state, fs_prefs, folder) ==
    IF localStateName(local_state, folder) # <<>>
    THEN [raised |-> FALSE, name |-> localStateName(local_state, folder)]
    ELSE get_profile_display_name(fs_prefs[folder])

\* get_current_color raises where the chain of .get calls meets a value that
\* is not an object, or the bytes are not UTF-8; otherwise it returns a
\* color, None or an "ERROR: ..." string
get_current_color_raises(doc) ==
    \/ loadOutcome(doc) = "UnicodeDecodeError"
    \/ loadOutcome(doc) = "ok"
         /\ (doc.top # "obj" \/ doc.ag = "other" \/ doc.agTheme = "other")

-----------------------------------------------------------------------------
(* Name Resolver: find_profiles_by_name *)

\* name_to_profile[key] = folder on a dict held as a sequence of
\* [key, folder] in insertion order: a key already present keeps its place
dictSet(d, key, folder) ==
    IF \E i \in DOMAIN d : d[i].key = key
    THEN [i \in DOMAIN d |->
            IF d[i].key = key THEN [key |-> key, folder |-> folder] ELSE d[i]]
    ELSE Append(d, [key |-> key, folder |-> folder])

\* the loop building the reverse lookup
RECURSIVE buildLookup(_, _, _)
buildLookup(all_profiles, local_state, fs_prefs) ==
    IF all_profiles = <<>> THEN <<>>
    ELSE LET n      == Len(all_profiles)
             folder == all_profiles[n]
             before == buildLookup(SubSeq(all_profiles, 1, n - 1),
                                   local_state, fs_prefs)
             dn     == displayName(local_state, fs_prefs, folder).name
         IN  IF dn # <<>> THEN dictSet(before, lower(dn), folder) ELSE before

\* the partial match taking the entries in reverse order
RECURSIVE partialMatchLast(_, _)
partialMatchLast(d, search_lower) ==
    IF d = <<>> THEN <<>>
    ELSE IF contains(d[Len(d)].key, search_lower) THEN <<d[Len(d)].folder>>
    ELSE partialMatchLast(SubSeq(d, 1, Len(d) - 1), search_lower)

\* the partial match: the first entry of the dict, in its iteration order,
\* whose key contains search_lower; the empty sequence when there is none
RECURSIVE partialMatch(_, _)
partialMatch(d, search_lower) ==
    IF d = <<>> THEN <<>>
    ELSE IF contains(Head(d).key, search_lower) THEN <<Head(d).folder>>
    ELSE partialMatch(Tail(d), search_lower)

\* the loop over names
RECURSIVE matchAll(_, _)
matchAll(d, names) ==
    IF names = <<>> THEN <<>>
    ELSE LET search_lower == lower(Head(names))
             exact == {i \in DOMAIN d : d[i].key = search_lower}
         IN  (IF exact # {} THEN <<d[CHOOSE i \in exact : TRUE].folder>>
              ELSE partialMatch(d, search_lower))
             \o matchAll(d, Tail(names))

\* [raised, out]: the folder names of the matched tuples, unless a display
\* name lookup raises
find_profiles_by_name(listing, local_state, fs_prefs, names) ==
    LET all_profiles == get_profile_dirs(listing)
    IN  IF \E i \in DOMAIN all_profiles :
                displayName(local_state, fs_prefs, all_profiles[i]).raised
        THEN [raised |-> TRUE, out |-> <<>>]
        ELSE [raised |-> FALSE,
              out |-> matchAll(buildLookup(all_profiles, local_state, fs_prefs),
                               names)]

-----------------------------------------------------------------------------
(* The color codec applied to drawn color strings *)

\* characters a drawn color string is made of: digits that need padding,
\* lowercase and uppercase letters, and a letter that is no hex digit
ColorChars == {"0", "a", "F"}

RECURSIVE StringsOver(_, _)
StringsOver(chars, n) ==
    IF n = 0 THEN {<<>>}
    ELSE {Append(s, c) : s \in StringsOver(chars, n - 1), c \in chars}

Hashes(n) == [i \in 1..n |-> "#"]

ColorStrings ==
    {Hashes(h) \o d : h \in 0..MaxHashes,
                      d \in UNION {StringsOver(ColorChars, n) : n \in 5..MaxDigits}}
    \cup {<<"#", "F", "F", "5", "5", "0", "0">>, <<"G", "G", "G", "G", "G", "G">>,
          <<"#", "0", "0", "F", "F", "5", "5", "0", "0">>,
          <<"0", "x", "1", "2", "3", "4", "5", "6">>, <<"1", "2", "3", "4", "5", " ">>}

NotCalled == [fn |-> "none"]

RunIdle ==
    /\ args = [color |-> <<>>] /\ env = <<>> /\ prefs = <<>> /\ backups = {}
    /\ clock = 0 /\ pc = "idle" /\ profiles = <<>> /\ idx = 0
    /\ success_count = 0 /\ color_int = 0 /\ exit_status = -1 /\ ret = "none"

CodecInit ==
    /\ RunIdle
    /\ arg \in ColorStrings
    /\ res = NotCalled

\* hex_to_signed_int(arg), and signed_int_to_hex of what it returns
Convert ==
    /\ res = NotCalled
    /\ LET r == hex_to_signed_int(arg)
       IN  res' = [fn |-> "codec", err |-> r.err, val |-> r.val,
                   hex |-> IF r.err THEN <<>> ELSE signed_int_to_hex(r.val)]
    /\ UNCHANGED <<arg, runVars>>

CodecNext == Convert

CodecSpec == CodecInit /\ [][CodecNext]_vars

-----------------------------------------------------------------------------
(* set_theme_color applied to drawn documents and arguments *)

Default  == <<"D", "e", "f", "a", "u", "l", "t">>
Profile1 == <<"P", "r", "o", "f", "i", "l", "e", " ", "1">>
Profile2 == <<"P", "r", "o", "f", "i", "l", "e", " ", "2">>

Orange == hex_to_signed_int(<<"#", "F", "F", "5", "5", "0", "0">>).val
Blue   == hex_to_signed_int(<<"#", "3", "3", "6", "6", "F", "F">>).val

ThemeIds == {<<>>, <<AUTOGENERATED_THEME_ID>>, <<"user_color_theme_id">>}
Colors   == {<<>>, <<Orange>>, <<Blue>>}

\* the subtree under autogenerated: <<ag, agTheme, color>>
AgShapes ==
    {<<"absent", "absent", <<>>>>, <<"other", "absent", <<>>>>,
     <<"obj", "absent", <<>>>>, <<"obj", "other", <<>>>>}
    \cup {<<"obj", "obj", c>> : c \in Colors}

\* the subtree under extensions: <<ext, extTheme, id>>
ExtShapes ==
    {<<"absent", "absent", <<>>>>, <<"other", "absent", <<>>>>,
     <<"obj", "absent", <<>>>>, <<"obj", "other", <<>>>>}
    \cup {<<"obj", "obj", i>> : i \in ThemeIds}

AllDocs ==
    {NoDoc("unreadable"), NoDoc("undecodable"), NoDoc("badjson"),
     [NoDoc("json") EXCEPT !.canonical = TRUE]}
    \cup {JsonDoc(a[1], a[2], a[3], e[1], e[2], e[3], <<>>, k) :
            a \in AgShapes, e \in ExtShapes, k \in BOOLEAN}

MutatorInit ==
    /\ arg \in [doc : AllDocs, color_int : {Orange, Blue},
                dry_run : BOOLEAN, backup : BOOLEAN,
                backups : {{}, {[name |-> <<Default, 0>>,
                                 content |-> NoDoc("badjson")]}}]
    /\ res = NotCalled
    /\ prefs = [f \in {Default} |-> arg.doc]
    /\ backups = arg.backups
    /\ clock = 0
    /\ args = [color |-> <<>>] /\ env = <<>> /\ pc = "idle" /\ profiles = <<>>
    /\ idx = 0 /\ success_count = 0 /\ color_int = 0 /\ exit_status = -1
    /\ ret = "none"

\* one call set_theme_color(prefs_path, color_int, user_data_dir, dry_run, backup)
ApplyColor ==
    /\ res = NotCalled
    /\ pc = "idle"
    /\ LET out == set_theme_color(prefs, backups, Default, arg.color_int,
                                  arg.dry_run, arg.backup, clock)
       IN  /\ res' = [fn |-> "set_theme_color", result |-> out.result]
           /\ ret' = out.result
           /\ prefs' = out.prefs
           /\ backups' = out.backups
    /\ UNCHANGED <<arg, args, env, clock, pc, profiles, idx, success_count,
                   color_int, exit_status>>

MutatorNext == ApplyColor

MutatorSpec == MutatorInit /\ [][MutatorNext]_vars

-----------------------------------------------------------------------------
(* get_profile_dirs applied to drawn directory listings *)

Profile10  == <<"P", "r", "o", "f", "i", "l", "e", " ", "1", "0">>
Profile02  == <<"P", "r", "o", "f", "i", "l", "e", " ", "0", "2">>
ProfileX   == <<"P", "r", "o", "f", "i", "l", "e", " ", "x">>
Zeta       == <<"Z", "e", "t", "a">>
Alpha      == <<"A", "l", "p", "h", "a">>
Crashpad   == <<"C", "r", "a", "s", "h", "p", "a", "d">>
LocalState == <<"L", "o", "c", "a", "l", " ", "S", "t", "a", "t", "e">>
SystemProfile == <<"S", "y", "s", "t", "e", "m", " ", "P", "r", "o", "f", "i", "l", "e">>

ProfileDir(name) == [name |-> name, is_dir |-> TRUE, has_prefs |-> TRUE]

DirUniverse ==
    {ProfileDir(n) : n \in {Default, Profile2, Profile10, Profile02, ProfileX,
                            Zeta, Alpha, SystemProfile}}
    \cup {[name |-> Crashpad, is_dir |-> TRUE, has_prefs |-> FALSE],
          [name |-> LocalState, is_dir |-> FALSE, has_prefs |-> FALSE]}

\* the orders in which a set of entries can be enumerated
Enumerations(entries) ==
    {l \in [1..Cardinality(entries) -> entries] :
        \A i, j \in DOMAIN l : i # j => l[i] # l[j]}

Listings ==
    UNION {Enumerations(es) : es \in {e \in SUBSET DirUniverse :
                                          Cardinality(e) <= MaxEntries}}

SortInit ==
    /\ RunIdle
    /\ arg \in Listings
    /\ res = NotCalled

ListDir ==
    /\ res = NotCalled
    /\ res' = [fn |-> "get_profile_dirs", out |-> get_profile_dirs(arg)]
    /\ UNCHANGED <<arg, runVars>>

SortNext == ListDir

SortSpec == SortInit /\ [][SortNext]_vars

-----------------------------------------------------------------------------
(* Properties of get_profile_dirs *)

Listed == res # NotCalled /\ res.fn = "get_profile_dirs"

Range(seq) == {seq[i] : i \in DOMAIN seq}

\* C9: the order of the result is total: a set of distinct folder names
\* yields one and the same sequence in whatever order the directory is
\* enumerated, "Default" first, then the "Profile N" folders by ascending N,
\* then every other name in lexicographic order.
C9_SortOrderTotal ==
    Listed =>
        /\ \A other \in Enumerations(Range(arg)) :
                get_profile_dirs(other) = res.out
        /\ \A i, j \in DOMAIN res.out :
                i < j => ~keyLess(sort_key(res.out[j]), sort_key(res.out[i]))

-----------------------------------------------------------------------------
(* find_profiles_by_name applied to drawn profiles and queries *)

WorkAccount      == <<"W", "o", "r", "k", " ", "A", "c", "c", "o", "u", "n", "t">>
WorkAccountUpper == <<"W", "O", "R", "K", " ", "A", "C", "C", "O", "U", "N", "T">>
Work             == <<"W", "o", "r", "k">>
Homework         == <<"H", "o", "m", "e", "w", "o", "r", "k">>

QueryWorkAccount == <<"w", "o", "r", "k", " ", "a", "c", "c", "o", "u", "n", "t">>
QueryWORK        == <<"W", "O", "R", "K">>
QueryCcount      == <<"c", "c", "o", "u", "n", "t">>
QueryNone        == <<"z", "z", "z">>

Queries == {QueryWorkAccount, QueryWORK, QueryCcount, QueryNone, <<>>}

NamedDoc(name) ==
    JsonDoc("absent", "absent", <<>>, "absent", "absent", <<>>, name, TRUE)

\* what a profile is called: <<name in Local State, Preferences document>>
Namings ==
    {<<(<<>>), NamedDoc(<<>>)>>, <<(<<>>), NamedDoc(Homework)>>,
     <<(<<>>), NoDoc("badjson")>>, <<WorkAccount, NamedDoc(Homework)>>,
     <<Work, NamedDoc(<<>>)>>, <<WorkAccountUpper, NoDoc("unreadable")>>,
     <<(<<>>), [NoDoc("json") EXCEPT !.canonical = TRUE]>>}

FindFolders == {Default, Profile1, Profile2}

SeqsUpTo(S, n) == UNION {[1..k -> S] : k \in 0..n}

FindInit ==
    /\ RunIdle
    /\ \E naming \in [FindFolders -> Namings],
          listing \in {<<ProfileDir(Profile2), ProfileDir(Default), ProfileDir(Profile1)>>},
          names \in SeqsUpTo(Queries, MaxQueries) :
            arg = [listing |-> listing,
                   local_state |-> [f \in FindFolders |-> naming[f][1]],
                   prefs |-> [f \in FindFolders |-> naming[f][2]],
                   names |-> names]
    /\ res = NotCalled

FindByName ==
    /\ res = NotCalled
    /\ LET r == find_profiles_by_name(arg.listing, arg.local_state, arg.prefs,
                                      arg.names)
       IN  res' = [fn |-> "find_profiles_by_name", raised |-> r.raised,
                   out |-> r.out]
    /\ UNCHANGED <<arg, runVars>>

FindNext == FindByName

FindSpec == FindInit /\ [][FindNext]_vars

-----------------------------------------------------------------------------
(* Properties of find_profiles_by_name *)

Found == res # NotCalled /\ res.fn = "find_profiles_by_name" /\ ~res.raised

\* the profiles in sort order and what each is called
SortedFolders == <<Default, Profile1, Profile2>>

EffectiveName(i) ==
    LET f == SortedFolders[i]
    IN  IF arg.local_state[f] # <<>> THEN arg.local_state[f]
        ELSE IF arg.prefs[f].kind = "json" THEN arg.prefs[f].name ELSE <<>>

Named == {i \in DOMAIN SortedFolders : EffectiveName(i) # <<>>}

\* the profile the reverse lookup holds for a lowercased display name: the
\* last one in sort order that bears it
Holder(key) ==
    SortedFolders[CHOOSE i \in Named :
        /\ lower(EffectiveName(i)) = key
        /\ \A j \in Named : lower(EffectiveName(j)) = key => j <= i]

Containing(q) == {i \in Named : contains(lower(EffectiveName(i)), q)}

\* what one query contributes
Answer(query) ==
    LET q == lower(query)
    IN  IF \E i \in Named : lower(EffectiveName(i)) = q THEN <<Holder(q)>>
        ELSE IF Containing(q) # {}
        THEN <<Holder(lower(EffectiveName(
                   CHOOSE i \in Containing(q) : \A j \in Containing(q) : i <= j)))>>
        ELSE <<>>

RECURSIVE Answers(_)
Answers(names) ==
    IF names = <<>> THEN <<>> ELSE Answer(Head(names)) \o Answers(Tail(names))

\* C8: find_profiles_by_name returns, in the order of the queries, at most
\* one profile per query: the profile held under the lowercased query if
\* the reverse lookup has that key, else the profile of the first entry in
\* insertion order whose key contains the lowercased query, else nothing;
\* and a profile named "Work Account" that no other display name competes
\* with is what each of "work account", "WORK" and "ccount" returns.
C8_FindByNameResult ==
    Found =>
        /\ res.out = Answers(arg.names)
        /\ Len(res.out) <= Len(arg.names)
        /\ \A k \in DOMAIN arg.names, i \in Named :
              (/\ arg.names[k] \in {QueryWorkAccount, QueryWORK, QueryCcount}
               /\ EffectiveName(i) = WorkAccount
               /\ Containing(lower(arg.names[k])) = {i})
              => \E m \in DOMAIN res.out : res.out[m] = SortedFolders[i]

\* "WORK" then "ccount": the exact match "Work" for the first, and for the
\* second the holder of "work account", which two profiles bear
C8_Witness ==
    /\ Found
    /\ arg.names = <<QueryWORK, QueryCcount>>
    /\ arg.local_state[Default] = WorkAccount
    /\ arg.local_state[Profile1] = Work
    /\ arg.local_state[Profile2] = WorkAccountUpper
    /\ res.out = <<Profile1, Profile2>>

-----------------------------------------------------------------------------
(* CLI Interface: main *)

Profile9 == <<"P", "r", "o", "f", "i", "l", "e", " ", "9">>

MainFolders == {Default, Profile1}
MainDir     == {ProfileDir(f) : f \in MainFolders}

RestrictedDoc ==
    JsonDoc("obj", "obj", <<Blue>>, "obj", "obj", <<"user_color_theme_id">>,
            WorkAccount, FALSE)
FreshDoc  == NamedDoc(<<>>)
ListDoc   == [NoDoc("json") EXCEPT !.canonical = TRUE]
ExtStrDoc ==
    JsonDoc("absent", "absent", <<>>, "other", "absent", <<>>, Work, TRUE)

MainDocs == {RestrictedDoc, FreshDoc, NoDoc("badjson"), ListDoc, ExtStrDoc}

MainColors == {<<>>, <<"#", "F", "F", "5", "5", "0", "0">>,
               <<"G", "G", "G", "G", "G", "G">>,
               <<"0", "0", "F", "F", "5", "5", "0", "0">>}

\* --name and --profiles as given: <<names, folders>>, empty when absent
Selections ==
    {<<(<<>>), {}>>, <<(<<>>), {Default}>>, <<(<<>>), {Profile1, Profile9}>>,
     <<(<<>>), {Profile9}>>, <<(<<QueryWORK>>), {Default}>>,
     <<(<<QueryWORK, QueryWorkAccount>>), {}>>, <<(<<QueryNone>>), {}>>}

LocalStates ==
    {[f \in MainFolders |-> <<>>],
     [f \in MainFolders |-> IF f = Default THEN WorkAccount ELSE Homework]}

MainInit ==
    /\ \E sel \in Selections, c \in MainColors, l, d, n, f \in BOOLEAN :
          args = [color |-> c, list |-> l, dry_run |-> d, no_backup |-> n,
                  force |-> f, name |-> sel[1], profiles |-> sel[2]]
    /\ \E ls \in LocalStates, docs \in [MainFolders -> MainDocs] :
          env = [local_state |-> ls, docs |-> docs]
    /\ prefs = env.docs
    /\ backups = {}
    /\ clock = 0
    /\ pc = "start"
    /\ profiles = <<>> /\ idx = 0 /\ success_count = 0 /\ color_int = 0
    /\ exit_status = -1
    /\ ret = "none"
    /\ arg = [fn |-> "main"]
    /\ res = NotCalled

\* sys.exit(status), or main returning (status 0)
Exit(status) ==
    /\ pc' = "exited"
    /\ exit_status' = status
    /\ UNCHANGED <<args, env, prefs, backups, clock, profiles, idx,
                   success_count, color_int, ret, arg, res>>

\* an exception leaves main: the interpreter prints the traceback and the
\* process ends with status 1
Crash ==
    /\ pc' = "crashed"
    /\ exit_status' = 1
    /\ UNCHANGED <<args, env, prefs, backups, clock, profiles, idx,
                   success_count, color_int, ret, arg, res>>

\* list_profiles raises on a document get_profile_display_name,
\* get_current_color or get_theme_id cannot walk
list_profiles_raises(all_profiles) ==
    \E i \in DOMAIN all_profiles :
        LET doc == prefs[all_profiles[i]]
        IN  \/ displayName(env.local_state, prefs, all_profiles[i]).raised
            \/ get_current_color_raises(doc)
            \/ loadOutcome(doc) = "UnicodeDecodeError"
            \/ loadOutcome(doc) = "ok"
                 /\ (doc.top # "obj" \/ doc.ext = "other" \/ doc.extTheme = "other")

\* the list comprehension filtering all_profiles by folder name
RECURSIVE filterByFolder(_, _)
filterByFolder(all_profiles, profile_set) ==
    IF all_profiles = <<>> THEN <<>>
    ELSE IF Head(all_profiles) \in profile_set
    THEN <<Head(all_profiles)>> \o filterByFolder(Tail(all_profiles), profile_set)
    ELSE filterByFolder(Tail(all_profiles), profile_set)

\* main up to the update loop: the checks that end the run, the color
\* conversion and the selection of profiles.  Whether the data directory
\* exists, whether the browser runs and the order iterdir() yields are the
\* environment's.
Start ==
    /\ pc = "start"
    /\ \E exists, running \in BOOLEAN, listing \in Enumerations(MainDir) :
        LET all_profiles == get_profile_dirs(listing)
            converted    == hex_to_signed_int(args.color)
            by_name      == find_profiles_by_name(listing, env.local_state,
                                                  prefs, args.name)
            selected     == IF args.name # <<>> THEN by_name.out
                            ELSE IF args.profiles # {}
                            THEN filterByFolder(all_profiles, args.profiles)
                            ELSE all_profiles
        IN  IF ~exists THEN Exit(1)
            ELSE IF args.list
            THEN IF list_profiles_raises(all_profiles) THEN Crash ELSE Exit(0)
            ELSE IF args.color = <<>> THEN Exit(1)
            ELSE IF running /\ ~args.force THEN Exit(1)
            ELSE IF converted.err THEN Exit(1)
            ELSE IF args.name # <<>> /\ by_name.raised THEN Crash
            ELSE IF selected = <<>> THEN Exit(1)
            ELSE /\ pc' = "loop"
                 /\ profiles' = selected
                 /\ color_int' = converted.val
                 /\ UNCHANGED <<args, env, prefs, backups, clock, idx,
                                success_count, exit_status, ret, arg, res>>

\* one iteration of the update loop
ProcessProfile ==
    /\ pc = "loop"
    /\ idx < Len(profiles)
    /\ LET folder_name == profiles[idx + 1]
           do_backup   == ~args.no_backup /\ ~args.dry_run
           out == set_theme_color(prefs, backups, folder_name, color_int,
                                  args.dry_run, do_backup, clock)
       IN  IF \/ displayName(env.local_state, prefs, folder_name).raised
              \/ get_current_color_raises(prefs[folder_name])
           THEN Crash
           ELSE IF out.result \notin {"True", "False"}
           THEN /\ pc' = "crashed"
                /\ exit_status' = 1
                /\ ret' = out.result
                /\ UNCHANGED <<args, env, prefs, backups, clock, profiles, idx,
                               success_count, color_int, arg, res>>
           ELSE /\ prefs' = out.prefs
                /\ backups' = out.backups
                /\ ret' = out.result
                /\ success_count' = IF out.result = "True"
                                    THEN success_count + 1 ELSE success_count
                /\ idx' = idx + 1
                /\ UNCHANGED <<args, env, clock, pc, profiles, color_int,
                               exit_status, arg, res>>

\* the loop is over: the summary is printed and main returns
Finish ==
    /\ pc = "loop"
    /\ idx = Len(profiles)
    /\ pc' = "done"
    /\ exit_status' = 0
    /\ UNCHANGED <<args, env, prefs, backups, clock, profiles, idx,
                   success_count, color_int, ret, arg, res>>

\* a second passes between two iterations
Tick ==
    /\ pc = "loop"
    /\ clock < MaxClock
    /\ clock' = clock + 1
    /\ UNCHANGED <<args, env, prefs, backups, pc, profiles, idx,
                   success_count, color_int, exit_status, ret, arg, res>>

Init == MainInit \/ MutatorInit

Next == Start \/ ProcessProfile \/ Finish \/ Tick \/ ApplyColor

Spec == Init /\ [][Next]_vars

-----------------------------------------------------------------------------
(* Properties of set_theme_color and main *)

Applied == res # NotCalled /\ res.fn = "set_theme_color"

\* C1: whatever the document held before, a call of set_theme_color with
\* dry_run = False that returns True leaves a document on disk whose
\* extensions.theme.id is "autogenerated_theme_id" and whose
\* autogenerated.theme.color is the color_int passed in.
C1_SuccessfulWriteSetsIdAndColor ==
    (Applied /\ ~arg.dry_run /\ res.result = "True") =>
        /\ prefs[Default].kind = "json"
        /\ prefs[Default].ext = "obj" /\ prefs[Default].extTheme = "obj"
        /\ prefs[Default].id = <<"autogenerated_theme_id">>
        /\ prefs[Default].ag = "obj" /\ prefs[Default].agTheme = "obj"
        /\ prefs[Default].color = <<arg.color_int>>

\* a restricted-picker document holding another color has been rewritten
C1_Witness ==
    /\ Applied /\ ~arg.dry_run /\ res.result = "True"
    /\ arg.doc.id = <<"user_color_theme_id">>
    /\ arg.doc.color = <<Blue>> /\ arg.color_int = Orange
    /\ prefs[Default].color = <<Orange>>

\* C2: with dry-run enabled nothing is written.  A call of set_theme_color
\* with dry_run = True creates no backup file and leaves the bytes of the
\* document as they were, and it returns True for every well-formed document
\* (json.load succeeds and the values at autogenerated, autogenerated.theme,
\* extensions and extensions.theme are objects where present); a run of main
\* with --dry-run, with or without --no-backup, creates no backup file and
\* leaves the bytes of every preference document as they were.
C2_DryRunWritesNothing ==
    /\ (Applied /\ arg.dry_run) =>
          /\ backups = arg.backups
          /\ prefs[Default] = arg.doc
          /\ (WellFormed(arg.doc) => res.result = "True")
    /\ (pc \in {"start", "loop", "done", "exited", "crashed"} /\ args.dry_run) =>
          /\ backups = {}
          /\ prefs = env.docs
          /\ (pc \in {"loop", "done"} /\ idx > 0 /\ WellFormed(prefs[profiles[idx]])
                => ret = "True")

\* a finished run of main --dry-run without --no-backup over a document a
\* real run would rewrite, set_theme_color having returned True
C2_Witness ==
    /\ pc = "done" /\ args.dry_run /\ ~args.no_backup
    /\ idx = Len(profiles) /\ ret = "True" /\ success_count = idx
    /\ prefs[profiles[idx]] = RestrictedDoc

MainEnded == pc \in {"done", "exited", "crashed"}

\* C4: failures are isolated per profile: whatever the selection and the
\* documents, a run of main that has entered the update loop ends with
\* every selected profile processed, and success_count is the number of
\* processed profiles whose update succeeded.
C4_FailuresIsolated ==
    (MainEnded /\ profiles # <<>>) =>
        /\ idx = Len(profiles)
        /\ success_count =
              Cardinality({k \in 1..idx : WellFormed(prefs[profiles[k]])})

\* C5: a run of main that ends with exit status 1 has written no preference
\* document and created no backup file.
C5_FatalBeforeMutation ==
    (MainEnded /\ exit_status = 1) => (prefs = env.docs /\ backups = {})

\* C6: during a run of main a backup file, once created, keeps its content:
\* no later step overwrites or removes it.
C6_BackupsAdditive ==
    [][pc = "loop" => \A b \in backups : b \in backups']_vars

-----------------------------------------------------------------------------
(* Properties of the color codec *)

Converted == res # NotCalled /\ res.fn = "codec"

\* a valid 6-digit color: six hexadecimal digits behind at most one '#'
SixDigits(x) ==
    IF x # <<>> /\ Head(x) = "#" THEN Tail(x) ELSE x

IsValidSixDigit(x) ==
    /\ Len(SixDigits(x)) = 6
    /\ \A i \in 1..6 : \E k \in DOMAIN HexDigits :
          upper(<<SixDigits(x)[i]>>) = <<HexDigits[k]>>

\* C7: for every valid 6-digit hex string x, with or without a leading '#'
\* and in any letter case, signed_int_to_hex(hex_to_signed_int(x)) is x in
\* uppercase with a leading '#'.
C7_RoundTrip ==
    (Converted /\ IsValidSixDigit(arg)) =>
        /\ ~res.err
        /\ res.hex = <<"#">> \o upper(SixDigits(arg))

\* a lowercase color without '#' that needs zero padding
C7_Witness ==
    /\ Converted
    /\ arg = <<"0", "0", "a", "F", "0", "a">>
    /\ res.hex = <<"#", "0", "0", "A", "F", "0", "A">>

\* C10: every color string hex_to_signed_int accepts yields a signed 32-bit
\* integer whose unsigned 32-bit form has the top byte 0xFF.
C10_AlphaForced ==
    (Converted /\ ~res.err) =>
        /\ res.val < 0
        /\ toUnsigned(res.val).hi = 255

HashFF5500 == <<"#", "F", "F", "5", "5", "0", "0">>

\* C11 as stated: hex_to_signed_int("#FF5500") returns -44800.
C11_ReturnsMinus44800 ==
    (Converted /\ arg = HashFF5500) => (~res.err /\ res.val = -44800)

\* C11 as amended: hex_to_signed_int("#FF5500") returns -43776, which is
\* 0xFFFF5500 (top byte 0xFF, low 24 bits 0xFF5500) reinterpreted as a signed
\* two's-complement 32-bit value.
C11_ReturnsMinus43776 ==
    (Converted /\ arg = HashFF5500) =>
        /\ ~res.err
        /\ res.val = -43776
        /\ toUnsigned(res.val) = [hi |-> 255, lo |-> 16733440]

\* "#FF5500" has been converted
C11_Witness ==
    /\ Converted /\ arg = HashFF5500
    /\ ~res.err /\ res.val < 0

====
